---- MODULE Spec2Model ----
(***************************************************************************)
(* Model of the bevy-markdown parser (src/src/markdown_asset.rs) and of    *)
(* the asset loader that drives it (src/src/markdown_loader.rs).           *)
(*                                                                         *)
(* A line of text is a sequence of one-character strings; the empty line   *)
(* is <<>>.  The line reader hands the parser one line at a time, and may  *)
(* fail on any read.                                                       *)
(***************************************************************************)
EXTENDS Integers, Sequences, FiniteSets, TLC

\* ---------------------------------------------------------------- bounds
MaxLen == 3     \* longest source line, in characters
MaxLines == 4   \* most lines one document is read for
MaxChars == 5   \* most characters one document holds, line ends not counted
MarkupLines == 2  \* most lines of a document with inline markers
MarkupChars == 4  \* most characters of a document with inline markers
MaxLoads == 1     \* most times one asset finishes loading
MaxStream == 4    \* longest stream the normalizer is applied to on its own
MaxBlankLines == 2  \* most blank lines in a row applied to such a stream

\* The characters lines are drawn from: a letter, the space and the heading
\* marker.
Alphabet == {"a", " ", "#"}

RECURSIVE StringsUpTo(_)
StringsUpTo(n) ==
    IF n = 0 THEN {<<>>}
    ELSE LET shorter == StringsUpTo(n - 1)
         IN  shorter \cup {Append(s, c) : s \in {t \in shorter : Len(t) = n - 1},
                                          c \in Alphabet}

Lines == StringsUpTo(MaxLen)

\* The backtick, which a string of this language cannot hold, is written
\* as the token below.
Backtick == "BACKTICK"

\* The characters of lines with inline markers: a letter, the emphasis
\* markers, the code marker and the opening bracket of a link.
MarkupAlphabet == {"a", "*", "_", Backtick, "["}

RECURSIVE MarkupStringsUpTo(_)
MarkupStringsUpTo(n) ==
    IF n = 0 THEN {<<>>}
    ELSE LET shorter == MarkupStringsUpTo(n - 1)
         IN  shorter \cup {Append(s, c) : s \in {t \in shorter : Len(t) = n - 1},
                                          c \in MarkupAlphabet}

MarkupTexts == MarkupStringsUpTo(MaxLen)

\* ------------------------------------------------------ string primitives
\* char::is_whitespace, restricted to the characters of the model
IsWhitespace(c) == c \in {" ", "\t", "\n", "\r"}

\* str::trim_start
RECURSIVE TrimStart(_)
TrimStart(s) ==
    IF s = <<>> THEN <<>>
    ELSE IF IsWhitespace(Head(s)) THEN TrimStart(Tail(s))
    ELSE s

\* str::trim_end
RECURSIVE TrimEnd(_)
TrimEnd(s) ==
    IF s = <<>> THEN <<>>
    ELSE IF IsWhitespace(s[Len(s)]) THEN TrimEnd(SubSeq(s, 1, Len(s) - 1))
    ELSE s

\* str::trim
Trim(s) == TrimEnd(TrimStart(s))

\* str::ends_with
EndsWith(s, suffix) ==
    /\ Len(s) >= Len(suffix)
    /\ SubSeq(s, Len(s) - Len(suffix) + 1, Len(s)) = suffix

\* str::is_empty
IsEmpty(s) == Len(s) = 0

\* ----------------------------------------------------------- data model
LineBreak == [kind |-> "LineBreak"]

MarkdownText(style, text) == [style |-> style, text |-> text]

Text(run) == [kind |-> "Text", run |-> run]

Heading(run, level) == [kind |-> "Heading", run |-> run, level |-> level]

CodeBlock(raw) == [kind |-> "CodeBlock", text |-> raw]

Markdown(content, style) == [content |-> content, style |-> style]

None == [tag |-> "None"]

Ok(v) == [tag |-> "Ok", value |-> v]

IoError == [tag |-> "Err", error |-> "Io"]

LoaderParseError == [tag |-> "Err", error |-> "Parse"]

\* ------------------------------------------------------------- the parser
\* parse_text, with the mutations of it that the claims are checked against
parse_text_hard_break_first(line, output) ==
    LET o1 == IF EndsWith(line, <<" ", " ">>) THEN Append(output, LineBreak)
              ELSE output
    IN  IF line # <<>>
        THEN Append(o1, Text(MarkdownText("Standard", Trim(line))))
        ELSE o1

parse_text_prepend(line, output) ==
    LET o1 == IF line # <<>>
              THEN <<Text(MarkdownText("Standard", Trim(line)))>> \o output
              ELSE output
    IN  IF EndsWith(line, <<" ", " ">>) THEN Append(o1, LineBreak) ELSE o1

parse_text_skip_empty_run(line, output) ==
    LET o1 == IF Trim(line) # <<>>
              THEN Append(output, Text(MarkdownText("Standard", Trim(line))))
              ELSE output
    IN  IF EndsWith(line, <<" ", " ">>) THEN Append(o1, LineBreak) ELSE o1

parse_text_single_space_break(line, output) ==
    LET o1 == IF line # <<>>
              THEN Append(output, Text(MarkdownText("Standard", Trim(line))))
              ELSE output
    IN  IF EndsWith(line, <<" ">>) THEN Append(o1, LineBreak) ELSE o1

IsMarker(c) == c \in {"*", "_", Backtick, "["}

IsNotMarker(c) == ~IsMarker(c)

parse_text_drop_markers(line, output) ==
    LET o1 == IF line # <<>>
              THEN Append(output, Text(MarkdownText("Standard",
                                       SelectSeq(Trim(line), IsNotMarker))))
              ELSE output
    IN  IF EndsWith(line, <<" ", " ">>) THEN Append(o1, LineBreak) ELSE o1

parse_text_with_headings(line, output) ==
    LET o1 == IF line # <<>>
              THEN IF Head(line) = "#"
                   THEN Append(output,
                               Heading(MarkdownText("Standard", Trim(Tail(line))), 1))
                   ELSE Append(output, Text(MarkdownText("Standard", Trim(line))))
              ELSE output
    IN  IF EndsWith(line, <<" ", " ">>) THEN Append(o1, LineBreak) ELSE o1

parse_text(line, output) ==
    LET o1 == IF line # <<>>
              THEN Append(output, Text(MarkdownText("Standard", Trim(line))))
              ELSE output
    IN  IF EndsWith(line, <<" ", " ">>) THEN Append(o1, LineBreak) ELSE o1

\* mutation of TrailingBreaks: the count is not limited to the last n
RECURSIVE TrailingBreaksUncapped(_, _)
TrailingBreaksUncapped(output, n) ==
    IF output = <<>> THEN 0
    ELSE IF output[Len(output)] = LineBreak
         THEN 1 + TrailingBreaksUncapped(SubSeq(output, 1, Len(output) - 1), n)
         ELSE 0

\* output.iter().rev().take(n).take_while(|e| e == LineBreak).count()
RECURSIVE TrailingBreaks(_, _)
TrailingBreaks(output, n) ==
    IF n = 0 \/ output = <<>> THEN 0
    ELSE IF output[Len(output)] = LineBreak
         THEN 1 + TrailingBreaks(SubSeq(output, 1, Len(output) - 1), n - 1)
         ELSE 0

\* for _ in 0..k { output.push(LineBreak) }; an empty range when k <= 0
RECURSIVE PushBreaks(_, _)
PushBreaks(output, k) ==
    IF k <= 0 THEN output
    ELSE PushBreaks(Append(output, LineBreak), k - 1)

\* mutations of parse_empty_line that the claims are checked against
parse_empty_line_look_back_one(line, output) ==
    PushBreaks(output, 2 - TrailingBreaks(output, 1))

parse_empty_line_one_break(line, output) ==
    PushBreaks(output, 1 - TrailingBreaks(output, 1))

parse_empty_line_always_two(line, output) ==
    PushBreaks(output, 2)

parse_empty_line(line, output) ==
    LET line_breaks == TrailingBreaks(output, 2)
    IN  PushBreaks(output, 2 - line_breaks)

\* ----------------------------------------------------------- the renderer
\* the entities and the assets of the application
Entities == {"e1", "e2"}

AssetIds == {"doc1", "doc2"}

\* the style handle a document's loader settings name
StyleHandle(a) == IF a = "doc1" THEN "style1" ELSE "style2"

StyleHandles == {StyleHandle(a) : a \in AssetIds}

\* the MarkdownStyle the style file behind a handle deserializes to
StyleFile(h) ==
    IF h = "style1"
    THEN [font |-> "font_a", body_size |-> 12, text_color |-> "white"]
    ELSE [font |-> "font_b", body_size |-> 20, text_color |-> "black"]

\* the style assets a document can be rendered with
Styles == {StyleFile(h) : h \in StyleHandles}

\* impl Into<TextStyle> for &MarkdownStyle
TextStyle(markdown_style) ==
    [font |-> markdown_style.font,
     font_size |-> markdown_style.body_size,
     color |-> markdown_style.text_color]

TextSection(value, text_style) ==
    [tag |-> "TextSection", value |-> value, style |-> text_style]

\* todo!()
Todo == [tag |-> "Panic"]

\* mutation of SectionOf: a LineBreak becomes an empty section
SectionOfEmptyBreak(element, body_style) ==
    IF element.kind = "Text" THEN TextSection(element.run.text, body_style)
    ELSE IF element.kind = "LineBreak" THEN TextSection(<<>>, body_style)
    ELSE Todo

\* the arms of the match in build_markdown
SectionOf(element, body_style) ==
    IF element.kind = "Text" THEN TextSection(element.run.text, body_style)
    ELSE IF element.kind = "LineBreak" THEN TextSection(<<"\n">>, body_style)
    ELSE Todo

\* build_markdown: the TextBundle it spawns, or the panic of a todo!() arm
build_markdown(markdown, markdown_style) ==
    LET body_style == TextStyle(markdown_style)
        text_sections ==
            [k \in 1..Len(markdown.content) |->
                 SectionOf(markdown.content[k], body_style)]
    IN  IF \E k \in 1..Len(text_sections) : text_sections[k] = Todo
        THEN Todo
        ELSE [tag |-> "TextBundle",
              sections |-> text_sections,
              justify |-> "Left",
              linebreak_behavior |-> "WordBoundary"]

RECURSIVE TotalLen(_)
TotalLen(ls) == IF ls = <<>> THEN 0 ELSE Len(Head(ls)) + TotalLen(Tail(ls))

\* ------------------------------------------------------------------ state
VARIABLES
    pc,        \* where MarkdownLoader::load is: "idle", "parsing", "parsed", "done"
    output,    \* parse_markdown's `output` vector
    parsed,    \* what parse_markdown returned, None before it returns
    loaded,    \* what MarkdownLoader::load returned, None before it returns
    style,     \* the style handle load obtained from the load context
    last_read, \* history: what the line reader yielded last
    lines,     \* history: the lines read so far, in order
    marks,     \* history: marks[i] is the length of output after line i
    ent_state,       \* per entity: "none", "added" (MarkdownComponent added
                     \* since on_add last ran) or "seen"
    ent_handle,      \* per entity: the asset its Handle<Markdown> names
    children,        \* per entity: the TextBundles spawned as its children
    markdown_assets, \* Assets<Markdown>: per asset id the document, or None
    markdown_styles, \* Assets<MarkdownStyle>: per style handle the style, or None
    asset_loaded,    \* AssetServer: per asset id, is_loaded_with_dependencies
    load_events,     \* the AssetEvent<Markdown>s on_asset_event has not read
    load_count       \* history: per asset id, the loads that have completed

parser_vars == <<pc, output, parsed, loaded, style, last_read, lines, marks>>

ui_vars == <<ent_state, ent_handle, children, markdown_assets, markdown_styles,
             asset_loaded, load_events, load_count>>

vars == <<parser_vars, ui_vars>>

Init ==
    /\ pc = "idle"
    /\ output = <<>>
    /\ parsed = None
    /\ loaded = None
    /\ style = "none"
    /\ last_read = "none"
    /\ lines = <<>>
    /\ marks = <<>>
    /\ ent_state = [e \in Entities |-> "none"]
    /\ ent_handle = [e \in Entities |-> "doc1"]
    /\ children = [e \in Entities |-> <<>>]
    /\ markdown_assets = [a \in AssetIds |-> None]
    /\ markdown_styles = [h \in StyleHandles |-> None]
    /\ asset_loaded = [a \in AssetIds |-> FALSE]
    /\ load_events = {}
    /\ load_count = [a \in AssetIds |-> 0]

\* load: the style handle is requested and parse_markdown is entered
LoadStart ==
    /\ pc = "idle"
    /\ pc' = "parsing"
    /\ style' = "style_handle"
    /\ output' = <<>>
    /\ UNCHANGED <<parsed, loaded, last_read, lines, marks>>
    /\ UNCHANGED ui_vars

\* lines.next() yields a line: one iteration of parse_markdown's loop, for
\* a line drawn from `from`
ParseLineFrom(from, max_lines, max_chars) ==
    /\ pc = "parsing"
    /\ Len(lines) < max_lines
    /\ \E line \in from :
         /\ TotalLen(lines) + Len(line) <= max_chars
         /\ output' = IF ~IsEmpty(line) THEN parse_text(line, output)
                      ELSE parse_empty_line(line, output)
         /\ lines' = Append(lines, line)
         /\ marks' = Append(marks, Len(output'))
    /\ last_read' = "line"
    /\ UNCHANGED <<pc, parsed, loaded, style>>
    /\ UNCHANGED ui_vars

ParseLine == ParseLineFrom(Lines, MaxLines, MaxChars)

\* the same iteration, for a line that holds inline markers
ParseMarkupLine == ParseLineFrom(MarkupTexts, MarkupLines, MarkupChars)

\* mutation of ReadError: the loop stops at the failed read and returns
\* what it has built
ReadErrorKeepsOutput ==
    /\ pc = "parsing"
    /\ pc' = "parsed"
    /\ parsed' = Ok(output)
    /\ last_read' = "error"
    /\ UNCHANGED <<output, loaded, style, lines, marks>>
    /\ UNCHANGED ui_vars

\* lines.next() yields an error: `line?` returns it and the vector is dropped
ReadError ==
    /\ pc = "parsing"
    /\ pc' = "parsed"
    /\ parsed' = IoError
    /\ output' = <<>>
    /\ last_read' = "error"
    /\ UNCHANGED <<loaded, style, lines, marks>>
    /\ UNCHANGED ui_vars

\* lines.next() yields None: the loop ends and Ok(output) is returned
EndOfStream ==
    /\ pc = "parsing"
    /\ pc' = "parsed"
    /\ parsed' = Ok(output)
    /\ last_read' = "end"
    /\ UNCHANGED <<output, loaded, style, lines, marks>>
    /\ UNCHANGED ui_vars

\* load: `parse_markdown(..).await?` and the construction of the asset
LoadFinish ==
    /\ pc = "parsed"
    /\ pc' = "done"
    /\ loaded' = IF parsed.tag = "Ok" THEN Ok(Markdown(parsed.value, style))
                 ELSE LoaderParseError
    /\ UNCHANGED <<output, parsed, style, last_read, lines, marks>>
    /\ UNCHANGED ui_vars

Next ==
    \/ LoadStart
    \/ ParseLine
    \/ ReadError
    \/ EndOfStream
    \/ LoadFinish

Spec == Init /\ [][Next]_vars

\* the loader reading documents whose lines hold inline markers
NextMarkup ==
    \/ LoadStart
    \/ ParseMarkupLine
    \/ ReadError
    \/ EndOfStream
    \/ LoadFinish

SpecMarkup == Init /\ [][NextMarkup]_vars

\* ------------------------------------------------ the plugin's UI systems
\* parse_markdown on a whole document whose reads all succeed
RECURSIVE ParseDocument(_, _)
ParseDocument(ls, out) ==
    IF ls = <<>> THEN out
    ELSE ParseDocument(Tail(ls),
                       IF ~IsEmpty(Head(ls)) THEN parse_text(Head(ls), out)
                       ELSE parse_empty_line(Head(ls), out))

\* the sources of the documents the application loads
DocSources ==
    { << <<"a">> >>,
      << <<"a", " ", " ">>, <<>>, <<"#", " ", "a">> >> }

Documents == {ParseDocument(ls, <<>>) : ls \in DocSources}

AssetEvent(kind, id) == [kind |-> kind, id |-> id]

\* the orders a query can yield the entities of a set in
Orders(S) ==
    {o \in [1..Cardinality(S) -> S] :
         \A i, j \in 1..Cardinality(S) : i # j => o[i] # o[j]}

\* an entity is spawned with a MarkdownNodeBundle whose handle names asset a
SpawnBundle ==
    \E e \in Entities, a \in AssetIds :
        /\ ent_state[e] = "none"
        /\ ent_state' = [ent_state EXCEPT ![e] = "added"]
        /\ ent_handle' = [ent_handle EXCEPT ![e] = a]
        /\ UNCHANGED <<children, markdown_assets, markdown_styles, asset_loaded,
                       load_events, load_count>>
        /\ UNCHANGED parser_vars

\* the asset server finishes a load, or a reload, of document a and puts
\* it in Assets<Markdown>; with its style present the load is complete.
\* "Added" stands for every kind of event on_asset_event filters out.
MarkdownLoaded ==
    \E a \in AssetIds, doc \in Documents :
        /\ load_count[a] < MaxLoads
        /\ markdown_assets[a] = None \/ asset_loaded[a]
        /\ markdown_assets' =
               [markdown_assets EXCEPT ![a] = Markdown(doc, StyleHandle(a))]
        /\ IF markdown_styles[StyleHandle(a)] # None
           THEN /\ asset_loaded' = [asset_loaded EXCEPT ![a] = TRUE]
                /\ load_count' = [load_count EXCEPT ![a] = @ + 1]
                /\ load_events' = load_events \cup
                       {AssetEvent("Added", a),
                        AssetEvent("LoadedWithDependencies", a)}
           ELSE /\ load_events' = load_events \cup
                       {AssetEvent("Added", a)}
                /\ UNCHANGED <<asset_loaded, load_count>>
        /\ UNCHANGED <<ent_state, ent_handle, children, markdown_styles>>
        /\ UNCHANGED parser_vars

\* the asset server finishes loading the style of document a and puts it
\* in Assets<MarkdownStyle>; with the document present the load is complete
StyleLoaded ==
    \E a \in AssetIds :
        /\ markdown_styles[StyleHandle(a)] = None
        /\ markdown_styles' = [markdown_styles EXCEPT
                                   ![StyleHandle(a)] = StyleFile(StyleHandle(a))]
        /\ IF markdown_assets[a] # None /\ ~asset_loaded[a]
              /\ load_count[a] < MaxLoads
           THEN /\ asset_loaded' = [asset_loaded EXCEPT ![a] = TRUE]
                /\ load_count' = [load_count EXCEPT ![a] = @ + 1]
                /\ load_events' = load_events \cup
                       {AssetEvent("LoadedWithDependencies", a)}
           ELSE UNCHANGED <<asset_loaded, load_count, load_events>>
        /\ UNCHANGED <<ent_state, ent_handle, children, markdown_assets>>
        /\ UNCHANGED parser_vars

\* the application removes a document from Assets<Markdown>
RemoveMarkdown ==
    \E a \in AssetIds :
        /\ markdown_assets[a] # None
        /\ markdown_assets' = [markdown_assets EXCEPT ![a] = None]
        /\ UNCHANGED <<ent_state, ent_handle, children, markdown_styles,
                       asset_loaded, load_events, load_count>>
        /\ UNCHANGED parser_vars

\* the application removes a style from Assets<MarkdownStyle>
RemoveStyle ==
    \E h \in StyleHandles :
        /\ markdown_styles[h] # None
        /\ markdown_styles' = [markdown_styles EXCEPT ![h] = None]
        /\ UNCHANGED <<ent_state, ent_handle, children, markdown_assets,
                       asset_loaded, load_events, load_count>>
        /\ UNCHANGED parser_vars

\* commands.entity(entity).with_children(|c| build_markdown(c, markdown, style))
WithChildren(kids, entity, markdown, markdown_style) ==
    [kids EXCEPT ![entity] = Append(@, build_markdown(markdown, markdown_style))]

\* the loop of on_add over the entities the query yields, in that order
RECURSIVE OnAddLoop(_, _)
OnAddLoop(order, kids) ==
    IF order = <<>> THEN kids
    ELSE LET entity == Head(order)
             markdown == markdown_assets[ent_handle[entity]]
         IN  IF asset_loaded[ent_handle[entity]]
             THEN IF markdown = None THEN kids
                  ELSE IF markdown_styles[markdown.style] = None THEN kids
                  ELSE OnAddLoop(Tail(order),
                                 WithChildren(kids, entity, markdown,
                                              markdown_styles[markdown.style]))
             ELSE OnAddLoop(Tail(order), kids)

\* the system on_add, once: it visits the entities whose MarkdownComponent
\* was added since it last ran
on_add ==
    /\ \E order \in Orders({e \in Entities : ent_state[e] = "added"}) :
           children' = OnAddLoop(order, children)
    /\ ent_state' = [e \in Entities |->
                         IF ent_state[e] = "added" THEN "seen" ELSE ent_state[e]]
    /\ UNCHANGED <<ent_handle, markdown_assets, markdown_styles, asset_loaded,
                   load_events, load_count>>
    /\ UNCHANGED parser_vars

\* mutation of OnAssetEventLoop: a style that is missing is replaced by a
\* default style
RECURSIVE OnAssetEventLoopDefaultStyle(_, _)
OnAssetEventLoopDefaultStyle(order, kids) ==
    IF order = <<>> THEN kids
    ELSE LET entity == Head(order)
             markdown == markdown_assets[ent_handle[entity]]
         IN  IF markdown = None THEN kids
             ELSE OnAssetEventLoopDefaultStyle(
                      Tail(order),
                      WithChildren(kids, entity, markdown,
                                   IF markdown_styles[markdown.style] = None
                                   THEN CHOOSE st \in Styles : TRUE
                                   ELSE markdown_styles[markdown.style]))

\* the loop of on_asset_event over the entities the filtered query yields
RECURSIVE OnAssetEventLoop(_, _)
OnAssetEventLoop(order, kids) ==
    IF order = <<>> THEN kids
    ELSE LET entity == Head(order)
             markdown == markdown_assets[ent_handle[entity]]
         IN  IF markdown = None THEN kids
             ELSE IF markdown_styles[markdown.style] = None THEN kids
             ELSE OnAssetEventLoop(Tail(order),
                                   WithChildren(kids, entity, markdown,
                                                markdown_styles[markdown.style]))

\* the ids of the LoadedWithDependencies events among the events read
LoadedAssets(events) ==
    {ev.id : ev \in {x \in events : x.kind = "LoadedWithDependencies"}}

\* the system on_asset_event, once: it reads the events it has not read
on_asset_event ==
    /\ LET loaded_assets == LoadedAssets(load_events)
       IN  \E order \in Orders({e \in Entities :
                                    /\ ent_state[e] # "none"
                                    /\ ent_handle[e] \in loaded_assets}) :
               children' = OnAssetEventLoop(order, children)
    /\ load_events' = {}
    /\ UNCHANGED <<ent_state, ent_handle, markdown_assets, markdown_styles,
                   asset_loaded, load_count>>
    /\ UNCHANGED parser_vars

NextUi ==
    \/ SpawnBundle
    \/ MarkdownLoaded
    \/ StyleLoaded
    \/ RemoveMarkdown
    \/ RemoveStyle
    \/ on_add
    \/ on_asset_event

SpecUi == Init /\ [][NextUi]_vars

\* both systems are in the Update schedule and so run in every frame: a
\* system that has work to do is not put off for ever
SpecUiFair ==
    /\ Init
    /\ [][NextUi]_vars
    /\ WF_vars(on_add)
    /\ WF_vars(on_asset_event)

\* ------------------------------------------------- vocabulary of the claims
\* the output vector is alive: no read has failed
Live == last_read # "error"

\* the elements line i appended
Start(i) == IF i = 1 THEN 0 ELSE marks[i - 1]

Segment(i) == SubSeq(output, Start(i) + 1, marks[i])

\* the length of the run of LineBreak elements a stream ends with
TrailingRun(s) ==
    CHOOSE k \in 0..Len(s) :
        /\ \A i \in (Len(s) - k + 1)..Len(s) : s[i] = LineBreak
        /\ k < Len(s) => s[Len(s) - k] # LineBreak

HardBreak(line) == EndsWith(line, <<" ", " ">>)

\* C1: right after a blank line was processed, the output ends with exactly
\* two consecutive LineBreak elements, whatever came before.
C1_BlankLineLeavesTwoBreaks ==
    (pc = "parsing" /\ last_read = "line" /\ lines[Len(lines)] = <<>>)
        => TrailingRun(output) = 2

C1_Witness ==
    /\ pc = "parsing"
    /\ Len(lines) = 4
    /\ lines[1] = <<>>
    /\ lines[2] = <<"a", " ", " ">>
    /\ lines[3] = <<>>
    /\ lines[4] = <<>>
    /\ TrailingRun(output) = 2

\* C2: the output never holds more than two consecutive LineBreak elements.
C2_NeverThreeBreaks ==
    \A i \in 1..(Len(output) - 2) :
        ~(output[i] = LineBreak /\ output[i + 1] = LineBreak
          /\ output[i + 2] = LineBreak)

C2_Witness ==
    /\ Len(lines) = 4
    /\ lines[1] = <<"a", " ", " ">>
    /\ lines[2] = <<>>
    /\ lines[3] = <<>>
    /\ lines[4] = <<" ", " ">>
    /\ Len(output) = 5
    /\ output[2] = LineBreak /\ output[3] = LineBreak
    /\ output[4] # LineBreak /\ output[5] = LineBreak

\* the elements of a stream that are Text elements
IsText(e) == e.kind = "Text"

TextsIn(s) == SelectSeq(s, IsText)

\* the number of LineBreak elements of a stream
IsBreak(e) == e = LineBreak

BreaksIn(s) == Len(SelectSeq(s, IsBreak))

\* C3: every non-blank line appends exactly one Text element, of style
\* Standard, whose text is the trimmed line and is not the empty string.
C3_TextIsTrimmedLineNeverEmpty ==
    Live => \A i \in 1..Len(lines) :
        lines[i] # <<>> =>
            /\ Len(TextsIn(Segment(i))) = 1
            /\ TextsIn(Segment(i))[1]
                   = Text(MarkdownText("Standard", Trim(lines[i])))
            /\ TextsIn(Segment(i))[1].run.text # <<>>

\* C4: no Text element with an empty run is in the output, and a line of
\* whitespace only appends no Text element, only the LineBreak of its hard
\* break if it has one.
C4_NoEmptyRunInOutput ==
    /\ \A k \in 1..Len(output) :
           IsText(output[k]) => output[k].run.text # <<>>
    /\ Live => \A i \in 1..Len(lines) :
           (lines[i] # <<>> /\ Trim(lines[i]) = <<>>) =>
               Segment(i) = IF HardBreak(lines[i]) THEN <<LineBreak>> ELSE <<>>

\* C5: a line ending in two spaces appends exactly one LineBreak element,
\* right after the Text element of that line.
C5_HardBreakFollowsItsText ==
    Live => \A i \in 1..Len(lines) :
        HardBreak(lines[i]) =>
            /\ BreaksIn(Segment(i)) = 1
            /\ Len(Segment(i)) = 2
            /\ Segment(i)[1] = Text(MarkdownText("Standard", Trim(lines[i])))
            /\ Segment(i)[2] = LineBreak

C5_Witness ==
    /\ pc = "parsing"
    /\ Len(lines) = 2
    /\ lines[1] = <<"a">>
    /\ lines[2] = <<"#", " ", " ">>
    /\ output = <<Text(MarkdownText("Standard", <<"a">>)),
                  Text(MarkdownText("Standard", <<"#">>)), LineBreak>>

\* line i is a text line, line j a later text line, and the lines between
\* them are blank lines, at least one
BlankGap(i, j) ==
    /\ i + 1 < j
    /\ lines[i] # <<>>
    /\ lines[j] # <<>>
    /\ \A k \in (i + 1)..(j - 1) : lines[k] = <<>>

\* the elements between the Text element of line i and that of line j
Between(i, j) == SubSeq(output, Start(i) + 2, Start(j))

\* C6: the LineBreak of a hard break counts toward the cap: a line ending
\* in two spaces, then one or more blank lines, then a text line, leaves
\* exactly two LineBreak elements between the two Text elements, as many as
\* when the first line has no hard break.
C6_HardBreakCountsTowardCap ==
    Live => \A i \in 1..Len(lines), j \in 1..Len(lines) :
        BlankGap(i, j) =>
            /\ IsText(output[Start(i) + 1])
            /\ IsText(output[Start(j) + 1])
            /\ HardBreak(lines[i]) => Between(i, j) = <<LineBreak, LineBreak>>
            /\ BreaksIn(Between(i, j)) = 2

C6_Witness ==
    /\ pc = "parsing"
    /\ Len(lines) = 4
    /\ lines[1] = <<"a", " ", " ">>
    /\ BlankGap(1, 4)
    /\ Between(1, 4) = <<LineBreak, LineBreak>>
    /\ Len(output) = 4

\* line i is a text line without a hard break, line i + 1 is blank and
\* line i + 2 is a text line
SingleBlank(i) ==
    /\ i + 2 <= Len(lines)
    /\ lines[i] # <<>>
    /\ ~HardBreak(lines[i])
    /\ lines[i + 1] = <<>>
    /\ lines[i + 2] # <<>>

\* C7 as claimed: a single blank line between two text lines, the first
\* without a hard break, contributes fewer than two LineBreak elements.
C7_SingleBlankFewerThanTwo ==
    Live => \A i \in 1..Len(lines) :
        SingleBlank(i) => Len(Segment(i + 1)) < 2

\* C7 as amended: a single blank line between two text lines, the first
\* without a hard break, contributes exactly two LineBreak elements.
C7_SingleBlankExactlyTwo ==
    Live => \A i \in 1..Len(lines) :
        SingleBlank(i) => Segment(i + 1) = <<LineBreak, LineBreak>>

C7_Witness ==
    /\ pc = "parsing"
    /\ Len(lines) = 3
    /\ SingleBlank(1)
    /\ lines[1] = <<"a", " ">>
    /\ output = <<Text(MarkdownText("Standard", <<"a">>)), LineBreak, LineBreak,
                  Text(MarkdownText("Standard", Trim(lines[3])))>>

\* C8: parsing is all or nothing.  A failed read makes parse_markdown
\* return the I/O error and none of the elements built so far, and load
\* then returns an error; a document is produced only when the stream was
\* read to its end, and it holds what was built from every line.
C8_AllOrNothing ==
    /\ (last_read = "error" /\ pc \in {"parsed", "done"}) => parsed = IoError
    /\ (last_read = "error" /\ pc = "done") => loaded.tag = "Err"
    /\ parsed.tag = "Ok" =>
           /\ last_read = "end"
           /\ parsed.value = output
           /\ Len(output) = IF lines = <<>> THEN 0 ELSE marks[Len(lines)]
    /\ loaded.tag = "Ok" =>
           /\ last_read = "end"
           /\ loaded.value.content = parsed.value

C8_Witness ==
    /\ pc = "done"
    /\ last_read = "error"
    /\ Len(lines) = 2
    /\ lines[1] # <<>>
    /\ marks[2] > 0
    /\ parsed = IoError
    /\ loaded = LoaderParseError

\* the text lines among the lines read, trimmed, in the order read
IsTextLine(l) == l # <<>>

TrimmedTextLines(ls) ==
    LET t == SelectSeq(ls, IsTextLine)
    IN  [k \in 1..Len(t) |-> Trim(t[k])]

\* the texts of the Text elements of a stream, in order
RunTexts(s) ==
    LET t == TextsIn(s)
    IN  [k \in 1..Len(t) |-> t[k].run.text]

\* C9: the output keeps the order of the source lines: the elements of an
\* earlier line all precede those of a later line, and the Text elements
\* read in order are the trimmed non-blank lines in source order.
C9_SourceOrderPreserved ==
    Live =>
        /\ RunTexts(output) = TrimmedTextLines(lines)
        /\ \A i \in 1..Len(lines) :
               LET seg == Segment(i)
               IN  /\ Start(i) <= marks[i]
                   /\ marks[i] <= Len(output)
                   /\ \A k \in 1..Len(seg) :
                          IF IsText(seg[k])
                          THEN lines[i] # <<>>
                               /\ seg[k].run.text = Trim(lines[i])
                          ELSE seg[k] = LineBreak
                   /\ lines[i] # <<>> => Len(TextsIn(seg)) = 1
        /\ parsed.tag = "Ok" => RunTexts(parsed.value) = TrimmedTextLines(lines)

C9_Witness ==
    /\ pc = "done"
    /\ loaded.tag = "Ok"
    /\ Len(lines) = 4
    /\ lines[1] = <<"a", " ">>
    /\ lines[2] = <<>>
    /\ lines[3] = <<"#">>
    /\ lines[4] = <<"a", "#">>
    /\ RunTexts(loaded.value.content) = << <<"a">>, <<"#">>, <<"a", "#">> >>

\* the number of '#' characters a line starts with
RECURSIVE LeadingHashes(_)
LeadingHashes(s) ==
    IF s = <<>> \/ Head(s) # "#" THEN 0 ELSE 1 + LeadingHashes(Tail(s))

HeadingRest(line) == SubSeq(line, LeadingHashes(line) + 1, Len(line))

\* 1 to 6 '#' characters, then whitespace, then text
IsHeadingLine(line) ==
    /\ LeadingHashes(line) \in 1..6
    /\ HeadingRest(line) # <<>>
    /\ IsWhitespace(Head(HeadingRest(line)))
    /\ Trim(HeadingRest(line)) # <<>>

\* C10: a heading line appends a Heading element whose level is the number
\* of '#' characters and whose text is the trimmed remainder, style
\* Standard, followed by exactly one LineBreak element.
C10_HeadingDetected ==
    Live => \A i \in 1..Len(lines) :
        IsHeadingLine(lines[i]) =>
            Segment(i) = <<Heading(MarkdownText("Standard",
                                                Trim(HeadingRest(lines[i]))),
                                   LeadingHashes(lines[i])),
                           LineBreak>>

\* ------------------------------------------------------ claims C11 to C20
Fence == <<Backtick, Backtick, Backtick>>

\* line i opens a code fence that no later line closes
UnterminatedFence(i) ==
    /\ lines[i] = Fence
    /\ i < Len(lines)
    /\ \A k \in 1..Len(lines) : k # i => lines[k] # Fence

\* C11: a fence-opening line moves the parser into a code fence, and a code
\* fence still open at the end of input yields a CodeBlock element holding
\* all lines after the opening fence.
C11_UnterminatedFenceYieldsCodeBlock ==
    (parsed.tag = "Ok") => \A i \in 1..Len(lines) :
        UnterminatedFence(i) =>
            \E k \in 1..Len(parsed.value) :
                parsed.value[k] = CodeBlock(SubSeq(lines, i + 1, Len(lines)))

\* the text between the first n and the last n characters of a line
Inner(line, n) == SubSeq(line, n + 1, Len(line) - n)

HasNoMarker(text) == \A k \in 1..Len(text) : ~IsMarker(text[k])

\* the whole line is wrapped in n copies of the marker m, around plain text
WrappedIn(line, m, n) ==
    /\ Len(line) > 2 * n
    /\ \A k \in 1..n : line[k] = m /\ line[Len(line) + 1 - k] = m
    /\ HasNoMarker(Inner(line, n))

\* C12: a line wrapped in '*' or '_' yields exactly one Text element of
\* style Italic, a line wrapped in '**' or '__' exactly one of style Bold,
\* the markers removed from its text.
C12_EmphasisRecognised ==
    Live => \A i \in 1..Len(lines) :
        /\ (WrappedIn(lines[i], "*", 1) \/ WrappedIn(lines[i], "_", 1)) =>
               Segment(i) = <<Text(MarkdownText("Italic", Inner(lines[i], 1)))>>
        /\ (WrappedIn(lines[i], "*", 2) \/ WrappedIn(lines[i], "_", 2)) =>
               Segment(i) = <<Text(MarkdownText("Bold", Inner(lines[i], 2)))>>

\* the stream ends with two LineBreak elements
NormalizedTail(s) ==
    /\ Len(s) >= 2
    /\ s[Len(s)] = LineBreak
    /\ s[Len(s) - 1] = LineBreak

\* the step processes a blank line
BlankLineStep == lines' = Append(lines, <<>>)

\* C13: a blank line processed on a stream that ends with two LineBreak
\* elements leaves the stream unchanged, so a run of blank lines leaves the
\* stream the first of them left.
C13_NormalizerIdempotent ==
    [][/\ (BlankLineStep /\ NormalizedTail(output)) => output' = output
       /\ (BlankLineStep /\ lines # <<>> /\ lines[Len(lines)] = <<>>)
              => output' = output]_vars

C13_Witness ==
    /\ pc = "parsing"
    /\ Len(lines) = 4
    /\ lines[1] = <<"a">>
    /\ lines[2] = <<>> /\ lines[3] = <<>> /\ lines[4] = <<>>
    /\ marks[2] = 3 /\ marks[3] = 3 /\ marks[4] = 3
    /\ output = <<Text(MarkdownText("Standard", <<"a">>)), LineBreak, LineBreak>>

\* the count of a character in a text
CountOf(text, c) == Cardinality({k \in 1..Len(text) : text[k] = c})

\* the line holds a marker that nothing matches
UnmatchedMarker(line) ==
    \/ CountOf(line, "[") > 0
    \/ CountOf(line, "*") % 2 = 1
    \/ CountOf(line, "_") % 2 = 1
    \/ CountOf(line, Backtick) % 2 = 1

\* C14: the content of a line never makes the parse fail: when every read
\* succeeds parse_markdown returns Ok, and a line with an unmatched marker
\* is emitted as a Standard run that keeps every marker character of the line.
C14_ContentNeverFails ==
    /\ (parsed.tag = "Err" \/ loaded.tag = "Err") => last_read = "error"
    /\ (pc \in {"parsed", "done"} /\ last_read = "end") =>
           parsed.tag = "Ok"
    /\ Live => \A i \in 1..Len(lines) :
           UnmatchedMarker(lines[i]) =>
               /\ Len(Segment(i)) >= 1
               /\ Segment(i)[1] = Text(MarkdownText("Standard", Trim(lines[i])))
               /\ \A c \in MarkupAlphabet :
                      IsMarker(c) =>
                          CountOf(Segment(i)[1].run.text, c) = CountOf(lines[i], c)

C14_Witness ==
    /\ pc = "done"
    /\ loaded.tag = "Ok"
    /\ lines = << <<"*">>, <<"a", "[", Backtick>> >>
    /\ loaded.value.content = <<Text(MarkdownText("Standard", <<"*">>)),
                                Text(MarkdownText("Standard",
                                                  <<"a", "[", Backtick>>))>>

\* the last two elements of a stream, or all of it when it is shorter
LastTwo(s) == SubSeq(s, IF Len(s) > 2 THEN Len(s) - 1 ELSE 1, Len(s))

\* C15: processing a line only appends: the stream before the line is a
\* prefix of the stream after it, at most 2 elements are appended, and the
\* number a blank line appends is the number it appends to the last two
\* elements alone.
C15_AppendOnly ==
    [][lines' # lines =>
         /\ Len(output') >= Len(output)
         /\ Len(output') <= Len(output) + 2
         /\ SubSeq(output', 1, Len(output)) = output
         /\ BlankLineStep =>
                Len(output') - Len(output)
                    = Len(parse_empty_line(<<>>, LastTwo(output))) - Len(LastTwo(output))]_vars

C15_Witness ==
    /\ pc = "parsing"
    /\ lines = << <<"a", " ", " ">>, <<>>, <<"#">> >>
    /\ marks = <<2, 3, 4>>
    /\ Len(output) = 4

\* C16: a non-blank line that does not end in two spaces appends its Text
\* element and nothing else, so consecutive such lines leave adjacent Text
\* elements.
C16_NoBreakWithoutHardBreak ==
    Live => \A i \in 1..Len(lines) :
        (lines[i] # <<>> /\ ~HardBreak(lines[i])) =>
            /\ Segment(i) = <<Text(MarkdownText("Standard", Trim(lines[i])))>>
            /\ (i < Len(lines) /\ lines[i + 1] # <<>>) =>
                   /\ IsText(output[marks[i]])
                   /\ IsText(output[marks[i] + 1])

C16_Witness ==
    /\ pc = "parsing"
    /\ lines = << <<"a", " ">>, <<"#">>, <<"a", "a">> >>
    /\ output = <<Text(MarkdownText("Standard", <<"a">>)),
                  Text(MarkdownText("Standard", <<"#">>)),
                  Text(MarkdownText("Standard", <<"a", "a">>))>>

Builds(e) == children'[e] # children[e]

\* the step is a run of on_add that visits the entity
OnAddVisits(e) == ent_state[e] = "added" /\ ent_state'[e] = "seen"

\* C17: build_markdown is invoked for an entity only when its Markdown
\* asset and the style the asset names are both in their collections, and
\* on_add invokes it only when the asset is loaded with its dependencies.
C17_BuildOnlyWhenResolved ==
    [][\A e \in Entities :
         Builds(e) =>
             /\ ent_state[e] # "none"
             /\ markdown_assets[ent_handle[e]] # None
             /\ markdown_styles[markdown_assets[ent_handle[e]].style] # None
             /\ OnAddVisits(e) => asset_loaded[ent_handle[e]]]_vars

C17_Witness ==
    /\ ent_state = [e \in Entities |-> "seen"]
    /\ ent_handle["e1"] = "doc1" /\ ent_handle["e2"] = "doc2"
    /\ Len(children["e1"]) = 1
    /\ children["e2"] = <<>>
    /\ asset_loaded["doc2"]
    /\ markdown_assets["doc2"] # None
    /\ markdown_styles["style2"] = None
    /\ load_events = {}

\* C18: build_markdown makes one text section per element of the document,
\* in order: the run's text for a Text element, a single newline for a
\* LineBreak element, each with the body style.
C18_OneSectionPerElement ==
    [][\A e \in Entities :
         Builds(e) =>
             LET markdown == markdown_assets[ent_handle[e]]
                 body_style == TextStyle(markdown_styles[markdown.style])
                 child == children'[e][Len(children'[e])]
             IN  /\ children'[e] = Append(children[e], child)
                 /\ child.tag = "TextBundle"
                 /\ Len(child.sections) = Len(markdown.content)
                 /\ \A k \in 1..Len(markdown.content) :
                        /\ child.sections[k].style = body_style
                        /\ IsText(markdown.content[k]) =>
                               child.sections[k].value
                                   = markdown.content[k].run.text
                        /\ markdown.content[k] = LineBreak =>
                               child.sections[k].value = <<"\n">>]_vars

C18_Witness ==
    /\ Len(children["e2"]) = 1
    /\ ent_handle["e2"] = "doc2"
    /\ Len(children["e2"][1].sections) = 4
    /\ children["e2"][1].sections[1].value = <<"a">>
    /\ children["e2"][1].sections[2].value = <<"\n">>
    /\ children["e2"][1].sections[3].value = <<"\n">>
    /\ children["e2"][1].sections[4].value = <<"#", " ", "a">>
    /\ children["e2"][1].sections[4].style = TextStyle(StyleFile("style2"))

\* C20: build_markdown is invoked for an entity at most once per completed
\* load of its asset.
C20_AtMostOneBuildPerLoad ==
    \A e \in Entities :
        ent_state[e] # "none" => Len(children[e]) <= load_count[ent_handle[e]]

\* ------------------------------------- the blank-line normalizer on its own
\* The elements of the streams parse_empty_line is applied to: a LineBreak
\* and two elements that are not one.
StreamElements ==
    {LineBreak,
     Text(MarkdownText("Standard", <<"a">>)),
     Heading(MarkdownText("Standard", <<"a">>), 1)}

RECURSIVE StreamsUpTo(_)
StreamsUpTo(n) ==
    IF n = 0 THEN {<<>>}
    ELSE LET shorter == StreamsUpTo(n - 1)
         IN  shorter \cup {Append(s, e) : s \in {t \in shorter : Len(t) = n - 1},
                                          e \in StreamElements}

Streams == StreamsUpTo(MaxStream)

\* parse_markdown inside its loop, with any stream in `output`
InitNormalizer ==
    /\ pc = "parsing"
    /\ output \in Streams
    /\ parsed = None
    /\ loaded = None
    /\ style = "style_handle"
    /\ last_read = "none"
    /\ lines = <<>>
    /\ marks = <<>>
    /\ ent_state = [e \in Entities |-> "none"]
    /\ ent_handle = [e \in Entities |-> "doc1"]
    /\ children = [e \in Entities |-> <<>>]
    /\ markdown_assets = [a \in AssetIds |-> None]
    /\ markdown_styles = [h \in StyleHandles |-> None]
    /\ asset_loaded = [a \in AssetIds |-> FALSE]
    /\ load_events = {}
    /\ load_count = [a \in AssetIds |-> 0]

\* the iteration of parse_markdown's loop for an empty line
ParseEmptyLine == ParseLineFrom({<<>>}, MaxBlankLines, 0)

NextNormalizer == ParseEmptyLine

SpecNormalizer == InitNormalizer /\ [][NextNormalizer]_vars

\* C22: for every stream the count parse_empty_line takes of trailing
\* LineBreak elements is 0, 1 or 2, so 2 - line_breaks is never negative
\* and the call appends 2 - line_breaks LineBreak elements, that is 0, 1
\* or 2 of them, and nothing else.
C22_CountWithinTwo ==
    [][BlankLineStep =>
         LET line_breaks == TrailingBreaks(output, 2)
         IN  /\ line_breaks \in 0..2
             /\ line_breaks <= Len(output)
             /\ 2 - line_breaks \in 0..2
             /\ Len(output') = Len(output) + (2 - line_breaks)
             /\ SubSeq(output', 1, Len(output)) = output
             /\ \A k \in (Len(output) + 1)..Len(output') :
                    output'[k] = LineBreak
             /\ TrailingBreaks(output', 2) = 2]_vars

C22_Witness ==
    /\ pc = "parsing"
    /\ lines = << <<>>, <<>> >>
    /\ marks = <<4, 4>>
    /\ output = <<LineBreak,
                  Heading(MarkdownText("Standard", <<"a">>), 1),
                  LineBreak, LineBreak>>

\* the entity is spawned and its document and style are loaded and present
Resolved(e) ==
    /\ ent_state[e] # "none"
    /\ asset_loaded[ent_handle[e]]
    /\ markdown_assets[ent_handle[e]] # None
    /\ markdown_styles[StyleHandle(ent_handle[e])] # None

\* C21: an entity spawned with a MarkdownNodeBundle whose document and
\* style finish loading is eventually built, whether the load completes
\* before or after the component is added and whatever happens to the other
\* entities of the same system run.
C21_EveryEntityEventuallyBuilt ==
    \A e \in Entities : <>[]Resolved(e) => <>(children[e] # <<>>)

====
